---- MODULE Spec2Model ----
(***************************************************************************)
(* Model of workload-recommendation-parser.py: the pipeline                *)
(*   fetch_cast_workloads -> find_workload -> create_kubernetes_patch      *)
(*   -> write, driven by main.                                             *)
(*                                                                         *)
(* Representation of Python / JSON values:                                 *)
(*   - a dict is a function whose domain is its set of keys (<<>> is {});  *)
(*   - None / JSON null is the record None;                                *)
(*   - a list is a sequence;                                               *)
(*   - a JSON number is a rational [num, den] with den a power of two, so  *)
(*     that the float holding it, and its product with 1024, are exact;    *)
(*   - the decoded response body and its "workloads" value, which the code *)
(*     never type-checks, carry a type tag (object, array, string, number, *)
(*     null) so that the outcome of `in`, indexing and iteration on each   *)
(*     type can be modelled.                                               *)
(* An uncaught Python exception ends the process with a traceback on       *)
(* standard error and exit code 1.                                         *)
(***************************************************************************)
EXTENDS Integers, Sequences, FiniteSets, TLC

VARIABLES
    args,            \* the parsed command line (main, line 134)
    curl,            \* what running curl yields: its status and body
    pc,              \* position of main: fetch, find, create, output, exit
    workloads_data,  \* main's local: the decoded response
    workload,        \* main's local: the located record
    patch,           \* main's local: the patch document
    built_from,      \* history: for each block of the patch, the index of
                     \* the input container the loop built it from
    stdout,          \* what the run has written to standard output
    stderr,          \* what the run has written to standard error
    out_file,        \* what the run has written to the --output-file target
    exit_code        \* the process exit code, NotExited while running

vars == <<args, curl, pc, workloads_data, workload, patch, built_from,
          stdout, stderr, out_file, exit_code>>

----------------------------------------------------------------------------
(* Bounds of the model. *)

MaxWorkloads == 2    \* longest "workloads" array of a response
MaxContainers == 2   \* longest "containers" array of a workload

----------------------------------------------------------------------------
(* Python values. *)

None == [type |-> "null"]

NotExited == 0 - 1

\* d.get(k)
Get(d, k) == IF k \in DOMAIN d THEN d[k] ELSE None

\* truth value of something that is a dict or None
Truthy(v) == v # None /\ DOMAIN v # {}

\* truth value of an optional string (None is the empty set, a string s is {s})
TruthyStr(s) == s # {} /\ s # {""}

Rat(n, d) == [num |-> n, den |-> d]

\* int(x): truncation toward zero
PyInt(x) ==
    IF x.num >= 0 THEN x.num \div x.den ELSE 0 - ((0 - x.num) \div x.den)

\* floor(x), for the statements about the conversion
Floor(x) == x.num \div x.den

RECURSIVE FracDigits(_, _)
FracDigits(r, d) ==
    IF r = 0 THEN ""
    ELSE ToString((r * 10) \div d) \o FracDigits((r * 10) % d, d)

\* str(x) of a non-negative float with a finite decimal expansion
PyStr(x) ==
    ToString(x.num \div x.den) \o "." \o
        (IF x.num % x.den = 0 THEN "0" ELSE FracDigits(x.num % x.den, x.den))

----------------------------------------------------------------------------
(* Diagnostics written to standard error. *)

FetchErrorMsg == "Error fetching data from CAST.AI API"
DecodeErrorMsg == "Error decoding JSON response from API"
SchemaErrorMsg == "Unexpected API response format: 'workloads' field not found"
NotFoundMsg == "Workload not found in namespace"
ContainerNotFoundMsg == "Container not found in workload"
EmptyPatchMsg == "No recommendations found for workload"
Traceback == "Traceback (most recent call last)"

----------------------------------------------------------------------------
(* fetch_cast_workloads *)

\* Outcome of the call: kind is "return" (value), "exit" (sys.exit(1) after
\* the diagnostics err) or "raise" (an exception nobody catches).
FetchCastWorkloads(c) ==
    IF c.status = "no_curl"
    THEN [kind |-> "raise", value |-> None, err |-> <<>>]
    ELSE IF c.status = "failed"
    THEN [kind |-> "exit", value |-> None, err |-> <<FetchErrorMsg>>]
    ELSE IF c.body = [type |-> "invalid"]
    THEN [kind |-> "exit", value |-> None, err |-> <<DecodeErrorMsg>>]
    ELSE [kind |-> "return", value |-> c.body, err |-> <<>>]

----------------------------------------------------------------------------
(* find_workload *)

\* `"workloads" in workloads_data`: "yes", "no", or "raise" (TypeError on a
\* value that is no container).
HasWorkloads(data) ==
    IF data.type = "object"
    THEN (IF "workloads" \in DOMAIN data.fields THEN "yes" ELSE "no")
    ELSE IF data.type \in {"array", "string"}
    THEN (IF data.has THEN "yes" ELSE "no")
    ELSE "raise"

\* Variant of the scan that compares the name only.
RECURSIVE ScanWorkloadsByName(_, _, _, _)
ScanWorkloadsByName(items, i, name, namespace) ==
    IF i > Len(items) THEN 0
    ELSE IF "name" \notin DOMAIN items[i] THEN 0 - 1
    ELSE IF items[i]["name"] = name THEN i
    ELSE ScanWorkloadsByName(items, i + 1, name, namespace)

\* The scan of line 34-36 over a list of records, from index i: the index of
\* the first match, 0 when there is none, -1 when a KeyError is raised first.
RECURSIVE ScanWorkloads(_, _, _, _)
ScanWorkloads(items, i, name, namespace) ==
    IF i > Len(items) THEN 0
    ELSE IF "name" \notin DOMAIN items[i] THEN 0 - 1
    ELSE IF items[i]["name"] # name
    THEN ScanWorkloads(items, i + 1, name, namespace)
    ELSE IF "namespace" \notin DOMAIN items[i] THEN 0 - 1
    ELSE IF items[i]["namespace"] = namespace THEN i
    ELSE ScanWorkloads(items, i + 1, name, namespace)

FindWorkload(data, name, namespace) ==
    LET has == HasWorkloads(data)
        raise == [kind |-> "raise", value |-> None, err |-> <<>>]
    IN  IF has = "raise" THEN raise
        ELSE IF has = "no"
        THEN [kind |-> "exit", value |-> None, err |-> <<SchemaErrorMsg>>]
        \* workloads_data["workloads"] on a list or a string: TypeError
        ELSE IF data.type # "object" THEN raise
        ELSE LET w == data.fields["workloads"]
             IN  IF w.type \in {"null", "number"} THEN raise
                 ELSE IF w.type = "object"
                 \* iterating a dict yields its keys; indexing a key
                 \* (a string) with "name" is a TypeError
                 THEN (IF DOMAIN w.fields = {}
                       THEN [kind |-> "return", value |-> None, err |-> <<>>]
                       ELSE raise)
                 ELSE LET i == ScanWorkloads(w.items, 1, name, namespace)
                      IN  IF i < 0 THEN raise
                          ELSE [kind |-> "return",
                                value |-> IF i = 0 THEN None ELSE w.items[i],
                                err |-> <<>>]

----------------------------------------------------------------------------
(* create_kubernetes_patch *)

KiB == 1024

\* Variant of the conversion with 1000 MiB to the GiB.
MemoryMiDecimal(g) == ToString(PyInt(Rat(g.num * 1000, g.den))) \o "Mi"

\* lines 97-98 and 111-112: f"{int(g * 1024)}Mi"
MemoryMi(g) == ToString(PyInt(Rat(g.num * KiB, g.den))) \o "Mi"

\* lines 92-98 and 106-112: the output map of one requests/limits dict m
ConvertResources(m) ==
    [k \in {k \in {"cpu", "memory"} :
                (IF k = "cpu" THEN "cpuCores" ELSE "memoryGib") \in DOMAIN m}
        |-> IF k = "cpu" THEN PyStr(m["cpuCores"]) ELSE MemoryMi(m["memoryGib"])]

\* lines 87-88 and 101-102: a requests/limits entry is created when the
\* recommendation's value for it is truthy
Resources(rec) ==
    [k \in {k \in {"requests", "limits"} : Truthy(Get(rec, k))}
        |-> ConvertResources(rec[k])]

\* lines 81-112: container_patch for container c
ContainerPatch(c) ==
    [name |-> c["name"], resources |-> Resources(c["recommendation"])]

\* line 115: container_patch.get("resources")
Attached(container_patch) == Truthy(Get(container_patch, "resources"))

\* lines 65-68: index of the first container named as the filter, 0 when
\* there is none, -1 when a container without a name raises KeyError first
RECURSIVE FindContainer(_, _, _)
FindContainer(containers, i, container_name) ==
    IF i > Len(containers) THEN 0
    ELSE IF "name" \notin DOMAIN containers[i] THEN 0 - 1
    ELSE IF containers[i]["name"] \in container_name THEN i
    ELSE FindContainer(containers, i + 1, container_name)

\* Variant of the selection that falls back to every container when no
\* container is named as the filter.
ContainersToUpdateOrAll(w, container_name) ==
    IF "containers" \notin DOMAIN w
    THEN [kind |-> "raise", todo |-> <<>>]
    ELSE LET i == IF TruthyStr(container_name)
                  THEN FindContainer(w["containers"], 1, container_name)
                  ELSE 0
         IN  IF i < 0 THEN [kind |-> "raise", todo |-> <<>>]
             ELSE IF i > 0 THEN [kind |-> "ok", todo |-> <<i>>]
             ELSE [kind |-> "ok", todo |-> [j \in 1..Len(w["containers"]) |-> j]]

\* Variant of the selection without the break of line 68: every container
\* named as the filter is selected.
ContainersToUpdateNoBreak(w, container_name) ==
    IF "containers" \notin DOMAIN w
    THEN [kind |-> "raise", todo |-> <<>>]
    ELSE IF TruthyStr(container_name)
    THEN LET cs == w["containers"]
             hit == {j \in 1..Len(cs) :
                        "name" \in DOMAIN cs[j] /\ cs[j]["name"] \in container_name}
         IN  IF \E j \in 1..Len(cs) : "name" \notin DOMAIN cs[j]
             THEN [kind |-> "raise", todo |-> <<>>]
             ELSE IF hit = {} THEN [kind |-> "none", todo |-> <<>>]
             ELSE [kind |-> "ok",
                   todo |-> [n \in 1..Cardinality(hit) |->
                               CHOOSE j \in hit :
                                   Cardinality({k \in hit : k <= j}) = n]]
    ELSE [kind |-> "ok", todo |-> [i \in 1..Len(w["containers"]) |-> i]]

\* lines 63-73: containers_to_update, as the indices of the containers it
\* holds; kind is "ok", "none" (line 69-71) or "raise"
ContainersToUpdate(w, container_name) ==
    IF "containers" \notin DOMAIN w
    THEN [kind |-> "raise", todo |-> <<>>]
    ELSE IF TruthyStr(container_name)
    THEN LET i == FindContainer(w["containers"], 1, container_name)
         IN  IF i < 0 THEN [kind |-> "raise", todo |-> <<>>]
             ELSE IF i = 0 THEN [kind |-> "none", todo |-> <<>>]
             ELSE [kind |-> "ok", todo |-> <<i>>]
    ELSE [kind |-> "ok", todo |-> [i \in 1..Len(w["containers"]) |-> i]]

\* Variant of the loop without the skip of lines 78-79 and the test of line
\* 115: a container without a recommendation gets a block with empty
\* resources.
RECURSIVE ProcessContainersNoSkip(_, _, _, _)
ProcessContainersNoSkip(containers, todo, k, acc) ==
    IF k > Len(todo) THEN acc
    ELSE LET c == containers[todo[k]]
             block == IF Truthy(Get(c, "recommendation"))
                      THEN ContainerPatch(c)
                      ELSE [name |-> c["name"], resources |-> <<>>]
         IN  IF "name" \notin DOMAIN c
             THEN [acc EXCEPT !.raised = TRUE]
             ELSE ProcessContainersNoSkip(containers, todo, k + 1,
                      [acc EXCEPT !.blocks = Append(@, block),
                                  !.from = Append(@, todo[k])])

\* Variant of the loop that puts each new block in front of the list.
RECURSIVE ProcessContainersPrepend(_, _, _, _)
ProcessContainersPrepend(containers, todo, k, acc) ==
    IF k > Len(todo) THEN acc
    ELSE LET c == containers[todo[k]]
         IN  IF ~Truthy(Get(c, "recommendation"))
             THEN ProcessContainersPrepend(containers, todo, k + 1, acc)
             ELSE IF "name" \notin DOMAIN c
             THEN [acc EXCEPT !.raised = TRUE]
             ELSE IF Attached(ContainerPatch(c))
             THEN ProcessContainersPrepend(containers, todo, k + 1,
                      [acc EXCEPT !.blocks = <<ContainerPatch(c)>> \o @,
                                  !.from = <<todo[k]>> \o @])
             ELSE ProcessContainersPrepend(containers, todo, k + 1, acc)

\* lines 76-116: the loop, from position k of todo; acc holds the blocks
\* appended so far, the indices they were built from, and whether a
\* KeyError was raised
RECURSIVE ProcessContainers(_, _, _, _)
ProcessContainers(containers, todo, k, acc) ==
    IF k > Len(todo) THEN acc
    ELSE LET c == containers[todo[k]]
         IN  IF ~Truthy(Get(c, "recommendation"))
             THEN ProcessContainers(containers, todo, k + 1, acc)
             ELSE IF "name" \notin DOMAIN c
             THEN [acc EXCEPT !.raised = TRUE]
             ELSE IF Attached(ContainerPatch(c))
             THEN ProcessContainers(containers, todo, k + 1,
                      [acc EXCEPT !.blocks = Append(@, ContainerPatch(c)),
                                  !.from = Append(@, todo[k])])
             ELSE ProcessContainers(containers, todo, k + 1, acc)

\* lines 46-60, with the container list filled in
PatchDocument(w, blocks) ==
    [apiVersion |-> "apps/v1",
     kind |-> w["kind"],
     metadata |-> [name |-> w["name"], namespace |-> w["namespace"]],
     spec |-> [template |-> [spec |-> [containers |-> blocks]]]]

PatchContainers(p) == p.spec.template.spec.containers

\* Variant of the builder without the test of lines 119-120: the document is
\* returned whatever its container list holds.
CreateKubernetesPatchAlways(w, container_name) ==
    LET ret(v, e, f) == [kind |-> "return", value |-> v, err |-> e, from |-> f]
        raise == [kind |-> "raise", value |-> None, err |-> <<>>, from |-> <<>>]
    IN  IF ~Truthy(w) THEN ret(None, <<>>, <<>>)
        ELSE IF ~({"kind", "name", "namespace"} \subseteq DOMAIN w) THEN raise
        ELSE LET sel == ContainersToUpdate(w, container_name)
             IN  IF sel.kind = "raise" THEN raise
                 ELSE IF sel.kind = "none"
                 THEN ret(None, <<ContainerNotFoundMsg>>, <<>>)
                 ELSE LET r == ProcessContainers(w["containers"], sel.todo, 1,
                                   [blocks |-> <<>>, from |-> <<>>,
                                    raised |-> FALSE])
                      IN  IF r.raised THEN raise
                          ELSE ret(PatchDocument(w, r.blocks), <<>>, r.from)

\* Outcome of the call: kind is "return" or "raise"; value is the patch or
\* None; err the diagnostics printed; from the history of the blocks.
CreateKubernetesPatch(w, container_name) ==
    LET ret(v, e, f) == [kind |-> "return", value |-> v, err |-> e, from |-> f]
        raise == [kind |-> "raise", value |-> None, err |-> <<>>, from |-> <<>>]
    IN  IF ~Truthy(w) THEN ret(None, <<>>, <<>>)
        ELSE IF ~({"kind", "name", "namespace"} \subseteq DOMAIN w) THEN raise
        ELSE LET sel == ContainersToUpdate(w, container_name)
             IN  IF sel.kind = "raise" THEN raise
                 ELSE IF sel.kind = "none"
                 THEN ret(None, <<ContainerNotFoundMsg>>, <<>>)
                 ELSE LET r == ProcessContainers(w["containers"], sel.todo, 1,
                                   [blocks |-> <<>>, from |-> <<>>,
                                    raised |-> FALSE])
                      IN  IF r.raised THEN raise
                          ELSE IF r.blocks = <<>> THEN ret(None, <<>>, <<>>)
                          ELSE ret(PatchDocument(w, r.blocks), <<>>, r.from)

----------------------------------------------------------------------------
(* main *)

\* json.dumps(patch, indent=indent)
JsonDumps(p, indent) == [what |-> "patch", json |-> p, indent |-> indent]

\* paths open(path, 'w') fails on
UnwritablePaths == {"missing_dir/patch.json"}

\* The process ends with exit code 1 after writing msgs to standard error.
Die(msgs) ==
    /\ stderr' = stderr \o msgs
    /\ exit_code' = 1
    /\ pc' = "exit"
    /\ UNCHANGED <<args, curl, stdout, out_file>>

Outcome(r) == IF r.kind = "raise" THEN r.err \o <<Traceback>> ELSE r.err

\* line 137
Fetch ==
    /\ pc = "fetch"
    /\ LET r == FetchCastWorkloads(curl)
       IN  IF r.kind = "return"
           THEN /\ workloads_data' = r.value
                /\ pc' = "find"
                /\ UNCHANGED <<args, curl, stdout, stderr, out_file, exit_code>>
           ELSE /\ Die((IF r.kind = "exit" /\ curl.status = "failed" /\ curl.errtext
                        THEN r.err \o <<"API error message">>
                        ELSE Outcome(r)))
                /\ UNCHANGED workloads_data
    /\ UNCHANGED <<workload, patch, built_from>>

\* lines 140-143
Find ==
    /\ pc = "find"
    /\ LET r == FindWorkload(workloads_data, args.name, args.namespace)
       IN  IF r.kind # "return"
           THEN Die(Outcome(r)) /\ UNCHANGED workload
           ELSE IF ~Truthy(r.value)
           THEN Die(<<NotFoundMsg>>) /\ workload' = r.value
           ELSE /\ workload' = r.value
                /\ pc' = "create"
                /\ UNCHANGED <<args, curl, stdout, stderr, out_file, exit_code>>
    /\ UNCHANGED <<workloads_data, patch, built_from>>

\* lines 146-149
Create ==
    /\ pc = "create"
    /\ LET r == CreateKubernetesPatch(workload, args.container)
       IN  IF r.kind # "return"
           THEN Die(Outcome(r)) /\ UNCHANGED <<patch, built_from>>
           ELSE IF ~Truthy(r.value)
           THEN /\ Die(r.err \o <<EmptyPatchMsg>>)
                /\ patch' = r.value
                /\ UNCHANGED built_from
           ELSE /\ patch' = r.value
                /\ built_from' = r.from
                /\ stderr' = stderr \o r.err
                /\ pc' = "output"
                /\ UNCHANGED <<args, curl, stdout, out_file, exit_code>>
    /\ UNCHANGED <<workloads_data, workload>>

\* Variant of the output step that prints the patch before it opens the
\* output file.
OutputEager ==
    /\ pc = "output"
    /\ LET patch_json == JsonDumps(patch, IF args.pretty THEN {2} ELSE {})
       IN  /\ stdout' = Append(stdout, patch_json)
           /\ IF args.output_file \cap UnwritablePaths # {}
              THEN /\ stderr' = Append(stderr, Traceback)
                   /\ exit_code' = 1
                   /\ UNCHANGED out_file
              ELSE /\ exit_code' = 0
                   /\ out_file' = IF TruthyStr(args.output_file)
                                  THEN Append(out_file, patch_json)
                                  ELSE out_file
                   /\ UNCHANGED stderr
           /\ pc' = "exit"
           /\ UNCHANGED <<args, curl>>
    /\ UNCHANGED <<workloads_data, workload, patch, built_from>>

\* lines 152-160
Output ==
    /\ pc = "output"
    /\ LET patch_json == JsonDumps(patch, IF args.pretty THEN {2} ELSE {})
       IN  IF TruthyStr(args.output_file)
           THEN IF args.output_file \cap UnwritablePaths # {}
                THEN Die(<<Traceback>>)
                ELSE /\ out_file' = Append(out_file, patch_json)
                     /\ stdout' = Append(stdout,
                            [what |-> "confirmation", path |-> args.output_file])
                     /\ exit_code' = 0
                     /\ pc' = "exit"
                     /\ UNCHANGED <<args, curl, stderr>>
           ELSE /\ stdout' = Append(stdout, patch_json)
                /\ exit_code' = 0
                /\ pc' = "exit"
                /\ UNCHANGED <<args, curl, stderr, out_file>>
    /\ UNCHANGED <<workloads_data, workload, patch, built_from>>

Next == Fetch \/ Find \/ Create \/ Output

----------------------------------------------------------------------------
(* The inputs of a run: the command line and what curl yields. *)

SeqsUpTo(S, n) == UNION {[1..k -> S] : k \in 0..n}

\* memoryGib values: below one MiB and negative, exactly one MiB, 1.5 GiB
MemVals == {Rat(0 - 1, 2048), Rat(1, 1024), Rat(3, 2)}

Quarter == Rat(1, 4)

Full == [cpuCores |-> Quarter, memoryGib |-> Rat(3, 2)]

\* requests / limits dicts: empty, holding only a key the code does not
\* read, cpu only, memory only, both
ResourceMaps ==
    {<<>>, [other |-> Rat(1, 1)], [cpuCores |-> Quarter], Full}
        \cup {[memoryGib |-> g] : g \in MemVals}

\* recommendation values: null, {}, requests only, limits only, both
Recommendations ==
    {None, <<>>}
        \cup {[requests |-> r] : r \in ResourceMaps}
        \cup {[limits |-> r] :
                 r \in {<<>>, [other |-> Rat(1, 1)], Full,
                        [memoryGib |-> Rat(0 - 1, 2048)]}}
        \cup {[requests |-> r, limits |-> l] : r, l \in {<<>>, Full}}

\* containers: "app" without a recommendation field and with each
\* recommendation, "sidecar" with a few, and two records without a name
Containers ==
    {[name |-> "app"]}
        \cup {[name |-> "app", recommendation |-> r] : r \in Recommendations}
        \cup {[name |-> "sidecar"],
              [name |-> "sidecar", recommendation |-> [requests |-> Full]],
              [name |-> "sidecar",
               recommendation |-> [requests |-> [other |-> Rat(1, 1)]]]}
        \cup {<<>>, [recommendation |-> [requests |-> Full]]}

Deployment(n, ns, cs) ==
    [name |-> n, namespace |-> ns, kind |-> "Deployment", containers |-> cs]

\* the container lists of the records the locator is run on
SampleContainers ==
    {<<[name |-> "app", recommendation |-> [requests |-> Full]]>>,
     <<[name |-> "app"],
       [name |-> "sidecar", recommendation |-> [limits |-> Full]]>>}

\* workload records: well-formed ones, and ones lacking a field
SampleWorkloads ==
    {Deployment(n, ns, cs) :
        n \in {"web", "api"}, ns \in {"default", "prod"}, cs \in SampleContainers}
        \cup {[namespace |-> "default"], [name |-> "web"],
              [name |-> "web", namespace |-> "default", kind |-> "Deployment"],
              [name |-> "web", namespace |-> "default",
               containers |-> <<[name |-> "app",
                                 recommendation |-> [requests |-> Full]]>>]}

Array(items) == [type |-> "array", items |-> items]
Object(fields) == [type |-> "object", fields |-> fields]

\* values of the "workloads" field
WorkloadsValues ==
    {[type |-> "null"], [type |-> "number"], Object(<<>>),
     Object([web |-> Object(<<>>)])}
        \cup {Array(ws) : ws \in SeqsUpTo(SampleWorkloads, MaxWorkloads)}

\* decoded response bodies
Bodies ==
    {[type |-> "null"], [type |-> "number"], Object(<<>>),
     Object([message |-> [type |-> "string", has |-> FALSE]])}
        \cup {[type |-> t, has |-> h] : t \in {"array", "string"}, h \in BOOLEAN}
        \cup {Object([workloads |-> w]) : w \in WorkloadsValues}

CurlResults ==
    {[status |-> "no_curl"]}
        \cup {[status |-> "failed", errtext |-> e] : e \in BOOLEAN}
        \cup {[status |-> "ok", body |-> b] : b \in Bodies \cup {[type |-> "invalid"]}}

ContainerFilters == {{}, {""}, {"app"}}

\* runs of the whole pipeline on every kind of response
PipelineRuns ==
    [args : [name : {"web"}, namespace : {"default", "prod"},
             container : {{}, {"sidecar"}},
             output_file : {{}, {"patch.json"}} \cup {UnwritablePaths},
             pretty : BOOLEAN],
     curl : CurlResults]

\* runs in which the response holds the one workload asked for, with every
\* list of containers
BuilderRuns ==
    [args : [name : {"web"}, namespace : {"default"},
             container : ContainerFilters,
             output_file : {{}}, pretty : {FALSE}],
     curl : {[status |-> "ok",
              body |-> Object([workloads |->
                          Array(<<Deployment("web", "default", cs)>>)])] :
                 cs \in SeqsUpTo(Containers, MaxContainers)}]

Init ==
    /\ \E run \in PipelineRuns \cup BuilderRuns :
          args = run.args /\ curl = run.curl
    /\ pc = "fetch"
    /\ workloads_data = None
    /\ workload = None
    /\ patch = None
    /\ built_from = <<>>
    /\ stdout = <<>>
    /\ stderr = <<>>
    /\ out_file = <<>>
    /\ exit_code = NotExited

Spec == Init /\ [][Next]_vars

----------------------------------------------------------------------------
(* Vocabulary of the properties. *)

\* patch content has reached standard output or the output file
PatchWritten ==
    \/ out_file # <<>>
    \/ \E i \in 1..Len(stdout) : stdout[i].what = "patch"

\* the patch documents written so far
WrittenPatches ==
    {out_file[i].json : i \in 1..Len(out_file)}
        \cup {stdout[i].json : i \in {j \in 1..Len(stdout) : stdout[j].what = "patch"}}

Printed(msg) == \E i \in 1..Len(stderr) : stderr[i] = msg

\* main has run create_kubernetes_patch on a located workload
CreateDone == Truthy(workload) /\ pc \in {"output", "exit"}

\* the located record has the fields of the wire contract the builder reads
WellFormed(w) ==
    /\ {"kind", "containers"} \subseteq DOMAIN w
    /\ \A j \in 1..Len(w["containers"]) : "name" \in DOMAIN w["containers"][j]

Named(c, filter) == "name" \in DOMAIN c /\ c["name"] \in filter

\* the indices of the containers the builder considers under a filter:
\* all of them without one, else the first one named as the filter
Considered(cs, filter) ==
    IF TruthyStr(filter)
    THEN {j \in 1..Len(cs) :
             Named(cs[j], filter) /\ \A k \in 1..(j - 1) : ~Named(cs[k], filter)}
    ELSE 1..Len(cs)

HasRecommendation(c) == Truthy(Get(c, "recommendation"))

\* container c yields a block
Produces(c) == HasRecommendation(c) /\ Attached(ContainerPatch(c))

\* the i-th smallest element of a set of numbers
Nth(P, i) == CHOOSE j \in P : Cardinality({k \in P : k <= j}) = i

\* the GiB value times 1024
Mebi(g) == Rat(g.num * KiB, g.den)

----------------------------------------------------------------------------
(* C1 *)

FailureDiagnostics ==
    {FetchErrorMsg, DecodeErrorMsg, SchemaErrorMsg, NotFoundMsg,
     ContainerNotFoundMsg, EmptyPatchMsg}

\* the response alone makes the run fail: curl failed, the body is no JSON,
\* or the body is an object without a workloads field
FailingResponse ==
    \/ curl.status = "failed"
    \/ curl.status = "ok" /\ curl.body.type = "invalid"
    \/ /\ curl.status = "ok"
       /\ curl.body.type = "object"
       /\ "workloads" \notin DOMAIN curl.body.fields

\* C1: the outcome is all-or-nothing. In every state of every run the patch
\* has been written (to standard output or to the output file) exactly when
\* the run has ended with exit code 0; a run that has reported one of the six
\* failure conditions, or whose response is a failing one, has ended with
\* exit code 1 and has written no patch content.
C1_AllOrNothing ==
    /\ PatchWritten <=> exit_code = 0
    /\ exit_code \in {NotExited, 0, 1}
    /\ pc = "exit" <=> exit_code # NotExited
    /\ \A m \in FailureDiagnostics :
          Printed(m) => exit_code = 1 /\ ~PatchWritten
    /\ pc = "exit" /\ FailingResponse => exit_code = 1 /\ ~PatchWritten

\* a run that wrote its patch to the output file and ended with exit code 0
C1_Witness ==
    /\ pc = "exit"
    /\ exit_code = 0
    /\ Len(out_file) = 1
    /\ out_file[1].json = patch
    /\ \A i \in 1..Len(stdout) : stdout[i].what = "confirmation"

----------------------------------------------------------------------------
(* C2 *)

\* C2: every container block of a returned patch has a cpu or memory entry
\* in its requests map or in its limits map.
C2_BlocksHaveFields ==
    Truthy(patch) =>
        \A i \in 1..Len(PatchContainers(patch)) :
            LET r == PatchContainers(patch)[i].resources
            IN  \E k \in DOMAIN r : DOMAIN r[k] \cap {"cpu", "memory"} # {}

----------------------------------------------------------------------------
(* C3 *)

\* the fetched value has a workloads field holding a sequence
HoldsSequence(b) ==
    /\ b.type = "object"
    /\ "workloads" \in DOMAIN b.fields
    /\ b.fields["workloads"].type = "array"

\* C3: for every fetched object without a workloads field holding a sequence
\* (the field is absent, or its value is no sequence), the run ends with the
\* SchemaError diagnostic alone, exit code 1 and no output.
C3_SchemaError ==
    (/\ pc = "exit"
     /\ curl.status = "ok"
     /\ curl.body.type = "object"
     /\ ~HoldsSequence(curl.body))
        => /\ stderr = <<SchemaErrorMsg>>
           /\ exit_code = 1
           /\ ~PatchWritten

----------------------------------------------------------------------------
(* C4 *)

\* the workloads array of the response, when it holds one
Items == curl.body.fields["workloads"].items

\* every record carries name and namespace
Locatable ==
    /\ curl.status = "ok"
    /\ HoldsSequence(curl.body)
    /\ \A i \in 1..Len(Items) : {"name", "namespace"} \subseteq DOMAIN Items[i]

Matches ==
    {i \in 1..Len(Items) :
        Items[i]["name"] = args.name /\ Items[i]["namespace"] = args.namespace}

\* C4: on a workloads sequence whose records all carry name and namespace,
\* once find_workload has run, the located record is the one at the lowest
\* index whose name and namespace both equal the targets, and the run has
\* gone on to the builder; when no record matches, nothing is located and the
\* run has ended with the NotFound diagnostic alone (not the schema error),
\* exit code 1 and no output.
C4_FirstMatch ==
    (Locatable /\ pc \notin {"fetch", "find"}) =>
        IF Matches # {}
        THEN /\ workload = Items[Nth(Matches, 1)]
             /\ ~Printed(NotFoundMsg)
             /\ ~Printed(SchemaErrorMsg)
        ELSE /\ workload = None
             /\ stderr = <<NotFoundMsg>>
             /\ pc = "exit"
             /\ exit_code = 1
             /\ ~PatchWritten

\* two different records match and the one at the lower index was located
C4_Witness ==
    /\ Locatable
    /\ pc = "create"
    /\ \E i, j \in Matches :
          /\ i < j
          /\ Items[i] # Items[j]
          /\ workload = Items[i]

----------------------------------------------------------------------------
(* C5 *)

\* no container of the located workload is named as the filter
NoneNamed == \A j \in 1..Len(workload["containers"]) :
                 ~Named(workload["containers"][j], args.container)

ContainerNotFoundOutcome ==
    /\ patch = None
    /\ Printed(ContainerNotFoundMsg)
    /\ pc = "exit"
    /\ exit_code = 1
    /\ ~PatchWritten

\* C5 as stated, for the patch and the output: whenever a container filter
\* is given (the option is present, with any value) and no container of the
\* located workload is named as the filter, no patch is produced and the run
\* ends in failure with no output.
C5_AnyFilter ==
    (/\ CreateDone
     /\ WellFormed(workload)
     /\ args.container # {}
     /\ NoneNamed)
        => /\ patch = None
           /\ pc = "exit"
           /\ exit_code = 1
           /\ ~PatchWritten

\* C5, amended: whenever a non-empty container filter is given and no
\* container of the located workload is named as the filter, the builder
\* signals ContainerNotFound, no patch is produced and the run ends in
\* failure with no output.
C5_NonEmptyFilter ==
    (/\ CreateDone
     /\ WellFormed(workload)
     /\ TruthyStr(args.container)
     /\ NoneNamed) => ContainerNotFoundOutcome

\* a non-empty filter names no container of a workload whose other
\* containers carry recommendations that would have produced a patch
C5_Witness ==
    /\ CreateDone
    /\ WellFormed(workload)
    /\ TruthyStr(args.container)
    /\ NoneNamed
    /\ \E j \in 1..Len(workload["containers"]) : Produces(workload["containers"][j])
    /\ ContainerNotFoundOutcome

----------------------------------------------------------------------------
(* C6 *)

\* C6: every block of the patch was built from an input container that has
\* a recommendation (the field present, not null and not empty), and carries
\* that container's name.
C6_NoBlockWithoutRecommendation ==
    Truthy(patch) =>
        /\ Len(built_from) = Len(PatchContainers(patch))
        /\ \A i \in 1..Len(built_from) :
              /\ built_from[i] \in 1..Len(workload["containers"])
              /\ HasRecommendation(workload["containers"][built_from[i]])
              /\ PatchContainers(patch)[i].name
                     = workload["containers"][built_from[i]]["name"]

\* a patch of a workload in which a container with the field absent, one
\* with null or {} and one with a recommendation all have the same name
C6_Witness ==
    /\ Truthy(patch)
    /\ Len(PatchContainers(patch)) = 1
    /\ LET cs == workload["containers"]
       IN  /\ Len(cs) = 2
           /\ \A j \in 1..2 : Named(cs[j], {"app"})
           /\ ~HasRecommendation(cs[1])
           /\ built_from = <<2>>

----------------------------------------------------------------------------
(* C7 *)

\* the memoryGib values behind the blocks of the patch: block index, the
\* requests/limits key, and the value
MemoryInputs ==
    {<<i, k>> \in (1..Len(built_from)) \X {"requests", "limits"} :
        LET m == Get(workload["containers"][built_from[i]]["recommendation"], k)
        IN  Truthy(m) /\ "memoryGib" \in DOMAIN m}

MemoryGib(i, k) ==
    workload["containers"][built_from[i]]["recommendation"][k]["memoryGib"]

MemoryOut(i, k) == PatchContainers(patch)[i].resources[k]["memory"]

\* C7 as stated: for every memoryGib value g under requests or limits,
\* negative values included, the output memory field is floor(g*1024)
\* followed by "Mi".
C7_FloorForAll ==
    Truthy(patch) =>
        \A ik \in MemoryInputs :
            MemoryOut(ik[1], ik[2])
                = ToString(Floor(Mebi(MemoryGib(ik[1], ik[2])))) \o "Mi"

\* C7, amended: the output memory field is g*1024 truncated toward zero
\* followed by "Mi": floor(g*1024) for every g >= 0, and -floor(-g*1024) for
\* every g < 0.
C7_Truncation ==
    Truthy(patch) =>
        \A ik \in MemoryInputs :
            LET g == MemoryGib(ik[1], ik[2])
                out == PatchContainers(patch)[ik[1]].resources
            IN  /\ ik[2] \in DOMAIN out
                /\ "memory" \in DOMAIN out[ik[2]]
                /\ out[ik[2]]["memory"]
                       = (IF g.num >= 0
                          THEN ToString(Floor(Mebi(g)))
                          ELSE ToString(0 - Floor(Mebi(Rat(0 - g.num, g.den)))))
                         \o "Mi"

\* a patch holding 1536Mi for 1.5 GiB under requests and under limits, and
\* one holding 1Mi for 1/1024 GiB
C7_Witness ==
    /\ Truthy(patch)
    /\ \E ik \in MemoryInputs :
          /\ MemoryGib(ik[1], ik[2]) = Rat(1, 1024)
          /\ MemoryOut(ik[1], ik[2]) = "1Mi"
    /\ \E i \in 1..Len(built_from) :
          /\ {<<i, "requests">>, <<i, "limits">>} \subseteq MemoryInputs
          /\ MemoryGib(i, "requests") = Rat(3, 2)
          /\ MemoryOut(i, "requests") = "1536Mi"
          /\ MemoryOut(i, "limits") = "1536Mi"

----------------------------------------------------------------------------
(* C8 *)

\* the input containers that are considered and produce a block
Producing ==
    {j \in Considered(workload["containers"], args.container) :
        Produces(workload["containers"][j])}

\* C8: the container blocks of a returned patch are the blocks of the
\* considered input containers that produce one, each once, in input order.
C8_InputOrder ==
    Truthy(patch) =>
        /\ built_from = [i \in 1..Cardinality(Producing) |-> Nth(Producing, i)]
        /\ PatchContainers(patch)
               = [i \in 1..Cardinality(Producing) |->
                     ContainerPatch(workload["containers"][Nth(Producing, i)])]

\* a patch with two different blocks, in the order of their containers
C8_Witness ==
    /\ Truthy(patch)
    /\ built_from = <<1, 2>>
    /\ PatchContainers(patch)[1] # PatchContainers(patch)[2]
    /\ PatchContainers(patch)[1].name = "sidecar"
    /\ PatchContainers(patch)[2].name = "app"

----------------------------------------------------------------------------
(* C9 *)

\* C9: a patch with zero containers is never emitted. Every patch handed to
\* the output step and every patch written holds at least one container
\* block; when the builder's final container list is empty the driver ends
\* the run with the "no recommendations" diagnostic, exit code 1 and no
\* output.
C9_NoEmptyPatch ==
    /\ \A p \in WrittenPatches : Truthy(p) /\ Len(PatchContainers(p)) >= 1
    /\ pc = "output" => Truthy(patch) /\ Len(PatchContainers(patch)) >= 1
    /\ (CreateDone /\ WellFormed(workload) /\ Producing = {})
           => /\ patch = None
              /\ Printed(EmptyPatchMsg)
              /\ pc = "exit"
              /\ exit_code = 1
              /\ ~PatchWritten

\* every container was considered and none produced a block, although one
\* has a non-empty recommendation: the run ended as an empty patch
C9_Witness ==
    /\ CreateDone
    /\ WellFormed(workload)
    /\ args.container = {}
    /\ Producing = {}
    /\ \E j \in 1..Len(workload["containers"]) :
          HasRecommendation(workload["containers"][j])
    /\ stderr = <<EmptyPatchMsg>>
    /\ exit_code = 1

----------------------------------------------------------------------------
(* C10 *)

\* indices of the containers named as the filter
NamedAs(filter) ==
    {j \in 1..Len(workload["containers"]) :
        Named(workload["containers"][j], filter)}

\* C10: under a non-empty filter only the first container named as the
\* filter is considered. A returned patch has exactly one block, named as the
\* filter and built from that first container; when that container yields no
\* block the result is None, whatever later containers of the same name
\* hold.
C10_FirstNamedOnly ==
    (CreateDone /\ WellFormed(workload) /\ TruthyStr(args.container)) =>
        LET cs == workload["containers"]
            hit == NamedAs(args.container)
        IN  /\ Truthy(patch) =>
                  /\ hit # {}
                  /\ built_from = <<Nth(hit, 1)>>
                  /\ PatchContainers(patch) = <<ContainerPatch(cs[Nth(hit, 1)])>>
                  /\ PatchContainers(patch)[1].name \in args.container
            /\ (hit # {} /\ ~Produces(cs[Nth(hit, 1)])) => patch = None

\* the first container named as the filter has no recommendation, a later
\* one of the same name would produce a block, and the result is None
C10_Witness ==
    /\ CreateDone
    /\ WellFormed(workload)
    /\ TruthyStr(args.container)
    /\ LET cs == workload["containers"]
           hit == NamedAs(args.container)
       IN  /\ Cardinality(hit) >= 2
           /\ ~HasRecommendation(cs[Nth(hit, 1)])
           /\ Produces(cs[Nth(hit, 2)])
    /\ patch = None
    /\ exit_code = 1

====
